---------------------------- MODULE Spec2Model ----------------------------
(***************************************************************************)
(* Trakt gap filler (src/trakt_gap_filler.py): the run of main() as a      *)
(* state machine, with the pure functions it calls as operators.           *)
(*                                                                         *)
(* Time.  A datetime is an integer number of ticks and a timedelta is an   *)
(* integer number of ticks.  One tick stands for 30 minutes, the smallest  *)
(* duration the program names, so that every duration of the code (30     *)
(* minutes, 12 hours, 20 hours, days) is a whole number of ticks that fits *)
(* the model checker's integers.  timedelta division rounds to the nearest *)
(* representable timedelta, ties to even (CPython's _divide_and_round);    *)
(* the model has the same rounding at its tick.                            *)
(*                                                                         *)
(* Strings that hold timestamps are records: Iso(t) is an ISO-8601 UTC     *)
(* string of the instant t, Bad is a non-empty string that fromisoformat   *)
(* rejects (it sorts after every ISO string, as "n/a" does), PyNone is     *)
(* Python's None.                                                          *)
(***************************************************************************)
EXTENDS Integers, Sequences, FiniteSets, TLC

----------------------------------------------------------------------------
(* Bounds of the model. *)

\* episodes of the catalog in the date-synthesis and history input families
NumEpisodes == 4
\* highest season number in the partition input family (season 0: specials)
MaxSeason == 2
\* highest episode number per season in the partition input family
MaxEpisode == 2
\* length of the selection string typed by the user
MaxInput == 5
\* shows of the batch input family
NumShows == 2
\* entries of the user's history in the merge input family
MaxEntries == 3
\* datetime.now() of the run, in ticks
Now == 20000

----------------------------------------------------------------------------
(* Durations of the program, in ticks of 30 minutes. *)

Minutes30 == 1
Hours12 == 24
Hours20 == 40
Day == 48
Days2 == 96
Days30 == 1440
Days365 == 17520

----------------------------------------------------------------------------
(* Python values. *)

PyNone == [kind |-> "none", t |-> 0]
Bad == [kind |-> "bad", t |-> 0]
Iso(t) == [kind |-> "iso", t |-> t]

\* truth value of an Optional[str]: None (and "") are false
Truthy(s) == s.kind # "none"

\* str < str for the timestamp strings: ISO strings of one format sort by
\* instant; Bad sorts after them
StrLess(a, b) ==
    \/ a.kind = "iso" /\ b.kind = "iso" /\ a.t < b.t
    \/ a.kind = "iso" /\ b.kind = "bad"

\* the absent EpisodeKey (prev_watched = None)
NoKey == <<>>

\* tuple comparison (season, episode) < (season, episode)
KeyLess(a, b) == a[1] < b[1] \/ (a[1] = b[1] /\ a[2] < b[2])

EpKey(ep) == <<ep.season, ep.episode>>

\* mutant: timedelta // int, the quotient rounded down
TdDivFloor(a, b) == a \div b

\* timedelta / int: round to the nearest tick, ties to even
TdDiv(a, b) ==
    LET q == a \div b
        r == a % b
    IN  IF 2 * r > b \/ (2 * r = b /\ q % 2 = 1) THEN q + 1 ELSE q

Min(a, b) == IF a < b THEN a ELSE b

\* dict.get(key): the value, or None
DictGet(d, k) == IF k \in DOMAIN d THEN d[k] ELSE PyNone

\* a dict with one more entry
WithField(r, f, v) == [x \in DOMAIN r \cup {f} |-> IF x = f THEN v ELSE r[x]]

\* parse_datetime: Some(datetime) or None
ParsedNone == [ok |-> FALSE, t |-> 0]
parse_datetime(s) == IF s.kind = "iso" THEN [ok |-> TRUE, t |-> s.t] ELSE ParsedNone

\* datetime.isoformat().replace('+00:00', 'Z')
isoformat(t) == Iso(t)

----------------------------------------------------------------------------
(* Sorting. *)

RECURSIVE SortKeys(_)
\* sorted(list(watched_episodes))
SortKeys(S) ==
    IF S = {} THEN <<>>
    ELSE LET m == CHOOSE k \in S : \A o \in S : o = k \/ KeyLess(k, o)
         IN  <<m>> \o SortKeys(S \ {m})

RECURSIVE InsertEp(_, _)
\* insert ep after the last element whose key is not greater (stable)
InsertEp(sorted, ep) ==
    IF sorted = <<>> THEN <<ep>>
    ELSE IF KeyLess(EpKey(ep), EpKey(sorted[1])) THEN <<ep>> \o sorted
    ELSE <<sorted[1]>> \o InsertEp(Tail(sorted), ep)

RECURSIVE SortEps(_)
\* list.sort(key=lambda x: (x['season'], x['episode']))
SortEps(eps) ==
    IF eps = <<>> THEN <<>>
    ELSE InsertEp(SortEps(SubSeq(eps, 1, Len(eps) - 1)), eps[Len(eps)])

RECURSIVE SortedTimes(_)
\* sorted(dates) for a bag of datetimes given as a sequence
SortedTimes(ts) ==
    IF ts = <<>> THEN <<>>
    ELSE LET i == CHOOSE i \in 1..Len(ts) : \A j \in 1..Len(ts) : ts[i] <= ts[j]
         IN  <<ts[i]>> \o SortedTimes(SubSeq(ts, 1, i - 1) \o SubSeq(ts, i + 1, Len(ts)))

RECURSIVE DictValues(_, _)
\* watch_history.values(), in the order of the keys
DictValues(d, keys) ==
    IF keys = <<>> THEN <<>>
    ELSE <<d[keys[1]]>> \o DictValues(d, Tail(keys))

RECURSIVE SumSeq(_)
SumSeq(s) == IF s = <<>> THEN 0 ELSE s[1] + SumSeq(Tail(s))

----------------------------------------------------------------------------
(* calculate_average_interval *)

\* mutant: a difference of exactly 365 days is kept
KeptIntervalsUpTo365(dates) ==
    LET all == [i \in 1..(Len(dates) - 1) |-> dates[i + 1] - dates[i]]
    IN  SelectSeq(all, LAMBDA iv : 0 < iv /\ iv <= Days365)

\* the consecutive differences kept: timedelta(0) < interval < 365 days
KeptIntervals(dates) ==
    LET all == [i \in 1..(Len(dates) - 1) |-> dates[i + 1] - dates[i]]
    IN  SelectSeq(all, LAMBDA iv : 0 < iv /\ iv < Days365)

\* the result, or raised = TRUE when sorted() compares None (TypeError)
calculate_average_interval(watch_history) ==
    IF Cardinality(DOMAIN watch_history) < 2 THEN [raised |-> FALSE, td |-> Days2]
    ELSE
        LET vals == DictValues(watch_history, SortKeys(DOMAIN watch_history))
            strs == SelectSeq(vals, Truthy)
            parsed == [i \in 1..Len(strs) |-> parse_datetime(strs[i])]
        IN  IF Len(parsed) >= 2 /\ \E i \in 1..Len(parsed) : ~parsed[i].ok
            THEN [raised |-> TRUE, td |-> 0]
            ELSE IF Len(parsed) < 2 THEN [raised |-> FALSE, td |-> Days2]
            ELSE
                LET dates == SortedTimes([i \in 1..Len(parsed) |-> parsed[i].t])
                    intervals == KeptIntervals(dates)
                IN  IF intervals = <<>> THEN [raised |-> FALSE, td |-> Days2]
                    ELSE [raised |-> FALSE,
                          td |-> TdDiv(SumSeq(intervals), Len(intervals))]

----------------------------------------------------------------------------
(* find_all_missing_episodes *)

\* mutant: the scan without "and next_watched is None ... break": the last
\* greater watched key wins
ScanWatchedNoBreak(watched_list, i, ep_tuple, prev_watched) ==
    LET below == {j \in 1..Len(watched_list) : KeyLess(watched_list[j], ep_tuple)}
        above == {j \in 1..Len(watched_list) : KeyLess(ep_tuple, watched_list[j])}
    IN  <<IF below = {} THEN NoKey
          ELSE watched_list[CHOOSE j \in below : \A o \in below : o <= j],
          IF above = {} THEN NoKey
          ELSE watched_list[CHOOSE j \in above : \A o \in above : o <= j]>>

RECURSIVE ScanWatched(_, _, _, _)
\* the neighbour scan of lines 186-191 from position i: <<prev, next>>
ScanWatched(watched_list, i, ep_tuple, prev_watched) ==
    IF i > Len(watched_list) THEN <<prev_watched, NoKey>>
    ELSE IF KeyLess(watched_list[i], ep_tuple)
         THEN ScanWatched(watched_list, i + 1, ep_tuple, watched_list[i])
    ELSE IF KeyLess(ep_tuple, watched_list[i])
         THEN <<prev_watched, watched_list[i]>>
    ELSE ScanWatched(watched_list, i + 1, ep_tuple, prev_watched)

gap_info(ep, watched_list, watch_history) ==
    LET nb == ScanWatched(watched_list, 1, EpKey(ep), NoKey)
    IN  [season |-> ep.season,
         episode |-> ep.episode,
         ids |-> ep.ids,
         first_aired |-> ep.first_aired,
         prev_watched |-> nb[1],
         next_watched |-> nb[2],
         prev_watched_at |-> IF nb[1] # NoKey THEN DictGet(watch_history, nb[1]) ELSE PyNone,
         next_watched_at |-> IF nb[2] # NoKey THEN DictGet(watch_history, nb[2]) ELSE PyNone]

\* mutant: the "continue" for watched episodes is missing
NotWatchedNoSkip(all_episodes, watched_episodes) == all_episodes

\* the episodes that pass "if ep_tuple in watched_episodes: continue"
NotWatched(all_episodes, watched_episodes) ==
    SelectSeq(all_episodes, LAMBDA ep : EpKey(ep) \notin watched_episodes)

find_all_missing_episodes(watched_episodes, all_episodes, watch_history) ==
    LET watched_list == SortKeys(watched_episodes)
    IN  IF watched_list = <<>>
        THEN [beginning |-> all_episodes, gaps |-> <<>>, ending |-> <<>>]
        ELSE
            LET first_watched == watched_list[1]
                last_watched == watched_list[Len(watched_list)]
                unwatched == NotWatched(all_episodes, watched_episodes)
                IsBeginning(ep) == KeyLess(EpKey(ep), first_watched)
                IsEnding(ep) == ~IsBeginning(ep) /\ KeyLess(last_watched, EpKey(ep))
                gapEps == SelectSeq(unwatched,
                                    LAMBDA ep : ~IsBeginning(ep) /\ ~IsEnding(ep))
            IN  [beginning |-> SelectSeq(unwatched, IsBeginning),
                 gaps |-> [i \in 1..Len(gapEps) |->
                              gap_info(gapEps[i], watched_list, watch_history)],
                 ending |-> SelectSeq(unwatched, IsEnding)]

----------------------------------------------------------------------------
(* Date synthesis *)

Some(t) == [ok |-> TRUE, t |-> t]

\* mutant: the floor is the air date itself, the 12 hours forgotten
ClampToAirNoSlack(proposed_date, first_aired) ==
    LET air_date == parse_datetime(first_aired)
    IN  IF air_date.ok /\ proposed_date < air_date.t
        THEN air_date.t
        ELSE proposed_date

\* clamp-to-air of lines 233-237, 247-251, 300-304, 333-337: the proposed
\* date raised to first_aired + 12 hours when first_aired parses
ClampToAir(proposed_date, first_aired) ==
    LET air_date == parse_datetime(first_aired)
    IN  IF air_date.ok /\ proposed_date < air_date.t + Hours12
        THEN air_date.t + Hours12
        ELSE proposed_date

\* the date of the gap at 1-based position idx of its sorted group of
\* num_episodes gaps (lines 226-273)
\* mutant: every episode past next_date is put at next_date
TieBreakAtNext(next_date, num_episodes, idx) == next_date

\* line 239: the tail is laid out backwards from next_date, 30 minutes apart
TieBreak(next_date, num_episodes, idx) ==
    next_date - Minutes30 * (num_episodes - idx)

GapDate(gap, idx, num_episodes, prev_date, next_date, now) ==
    LET air_date == parse_datetime(gap.first_aired)
    IN  IF prev_date.ok /\ next_date.ok THEN
            LET total_gap == next_date.t - prev_date.t
                interval == TdDiv(total_gap, num_episodes + 1)
                clamped == ClampToAir(prev_date.t + interval * idx, gap.first_aired)
            IN  IF air_date.ok /\ clamped > next_date.t
                THEN TieBreak(next_date.t, num_episodes, idx)
                ELSE clamped
        ELSE IF prev_date.ok THEN
            ClampToAir(prev_date.t + Day * (idx * 2), gap.first_aired)
        ELSE IF next_date.ok THEN
            \* enumerate(reversed(group_gaps), 1)
            ClampToAir(next_date.t - Day * ((num_episodes - idx + 1) * 2), gap.first_aired)
        ELSE
            \* enumerate(group_gaps) counts from 0
            IF air_date.ok
            THEN air_date.t + Day * Min((idx - 1) + 1, 7) + Hours20
            ELSE now - Day * (num_episodes - (idx - 1))

\* gap_groups[(prev, next)]: the gaps of one neighbour pair, in list order
GapGroup(gaps, gap) ==
    SelectSeq(gaps, LAMBDA x : x.prev_watched = gap.prev_watched
                               /\ x.next_watched = gap.next_watched)

\* position of the episode in a list sorted by key
PositionIn(sorted, ep) == CHOOSE i \in 1..Len(sorted) : EpKey(sorted[i]) = EpKey(ep)

\* an Optional[str] parsed only if it is truthy (lines 221-222)
ParseIfSet(s) == IF Truthy(s) THEN parse_datetime(s) ELSE ParsedNone

calculate_intelligent_dates_for_gaps(gaps, now) ==
    [k \in 1..Len(gaps) |->
        LET group_gaps == GapGroup(gaps, gaps[k])
            prev_date == ParseIfSet(group_gaps[1].prev_watched_at)
            next_date == ParseIfSet(group_gaps[1].next_watched_at)
            sorted == SortEps(group_gaps)
            idx == PositionIn(sorted, gaps[k])
        IN  WithField(gaps[k], "calculated_watched_at",
                      isoformat(GapDate(gaps[k], idx, Len(sorted),
                                        prev_date, next_date, now)))]

\* air date of the last (beginning) episode of the sorted list that has one
LatestAir(sorted) ==
    LET known == {i \in 1..Len(sorted) : parse_datetime(sorted[i].first_aired).ok}
    IN  IF known = {} THEN ParsedNone
        ELSE parse_datetime(sorted[CHOOSE i \in known : \A j \in known : j <= i].first_aired)

\* air date of the first (ending) episode of the sorted list that has one
EarliestAir(sorted) ==
    LET known == {i \in 1..Len(sorted) : parse_datetime(sorted[i].first_aired).ok}
    IN  IF known = {} THEN ParsedNone
        ELSE parse_datetime(sorted[CHOOSE i \in known : \A j \in known : i <= j].first_aired)

\* anchor_date of lines 283-293
BeginningAnchor(sorted, first_watched_date, now) ==
    IF Truthy(first_watched_date) THEN parse_datetime(first_watched_date)
    ELSE LET latest_air == LatestAir(sorted)
         IN  IF latest_air.ok THEN Some(latest_air.t + Days30) ELSE Some(now)

\* anchor_date of lines 316-326
EndingAnchor(sorted, last_watched_date, now) ==
    IF Truthy(last_watched_date) THEN parse_datetime(last_watched_date)
    ELSE LET earliest_air == EarliestAir(sorted)
         IN  IF earliest_air.ok THEN Some(earliest_air.t - Days30) ELSE Some(now - Days365)

\* raised = TRUE: anchor_date is None and the first subtraction raises TypeError
calculate_dates_for_beginning(episodes, first_watched_date, avg_interval, now) ==
    LET sorted == SortEps(episodes)
        anchor_date == BeginningAnchor(sorted, first_watched_date, now)
        n == Len(sorted)
    IN  IF n > 0 /\ ~anchor_date.ok THEN [raised |-> TRUE, eps |-> <<>>]
        ELSE [raised |-> FALSE,
              eps |-> [p \in 1..n |->
                  \* enumerate(reversed(episodes), 1)
                  LET idx == n - p + 1
                  IN  WithField(sorted[p], "calculated_watched_at",
                          isoformat(ClampToAir(anchor_date.t - avg_interval * idx,
                                               sorted[p].first_aired)))]]

calculate_dates_for_ending(episodes, last_watched_date, avg_interval, now) ==
    LET sorted == SortEps(episodes)
        anchor_date == EndingAnchor(sorted, last_watched_date, now)
        n == Len(sorted)
    IN  IF n > 0 /\ ~anchor_date.ok THEN [raised |-> TRUE, eps |-> <<>>]
        ELSE [raised |-> FALSE,
              eps |-> [p \in 1..n |->
                  WithField(sorted[p], "calculated_watched_at",
                      isoformat(ClampToAir(anchor_date.t + avg_interval * p,
                                           sorted[p].first_aired)))]]

----------------------------------------------------------------------------
(* parse_selection.  A str is a sequence of one-character strings. *)

Digits == {"0", "1", "2", "3"}

DigitVal(c) == CASE c = "0" -> 0 [] c = "1" -> 1 [] c = "2" -> 2 [] OTHER -> 3

HasChar(s, c) == \E i \in 1..Len(s) : s[i] = c

\* str.endswith
EndsWith(s, suffix) ==
    Len(s) >= Len(suffix) /\ SubSeq(s, Len(s) - Len(suffix) + 1, Len(s)) = suffix

\* str.startswith
StartsWith(s, prefix) == Len(s) >= Len(prefix) /\ SubSeq(s, 1, Len(prefix)) = prefix

\* str.lower on the characters of the model
LowerChar(c) == CASE c = "B" -> "b" [] c = "E" -> "e" [] c = "Y" -> "y" [] OTHER -> c
Lower(s) == [i \in 1..Len(s) |-> LowerChar(s[i])]

RECURSIVE SplitOn(_, _)
\* str.split(sep): the fields between the separators, empty fields kept
SplitOn(s, sep) ==
    IF ~HasChar(s, sep) THEN <<s>>
    ELSE LET i == CHOOSE i \in 1..Len(s) : s[i] = sep /\ \A j \in 1..(i - 1) : s[j] # sep
         IN  <<SubSeq(s, 1, i - 1)>> \o SplitOn(SubSeq(s, i + 1, Len(s)), sep)

\* str.split(): the fields between runs of whitespace, no empty field
SplitWords(s) == SelectSeq(SplitOn(s, " "), LAMBDA w : w # <<>>)

\* str.strip(): the string joined back without leading and trailing blanks
RECURSIVE Strip(_)
Strip(s) ==
    IF s # <<>> /\ s[1] = " " THEN Strip(Tail(s))
    ELSE IF s # <<>> /\ s[Len(s)] = " " THEN Strip(SubSeq(s, 1, Len(s) - 1))
    ELSE s

\* int(str) succeeds: a non-empty run of digits (the model's strings hold no
\* sign, blank or underscore here)
IsInt(s) == s # <<>> /\ \A i \in 1..Len(s) : s[i] \in Digits

RECURSIVE IntOf(_)
IntOf(s) == IF s = <<>> THEN 0 ELSE 10 * IntOf(SubSeq(s, 1, Len(s) - 1)) + DigitVal(s[Len(s)])

\* range(start, end + 1) with one modifier
RangeItems(start, end, modifier) ==
    [k \in 1..(end - start + 1) |-> [num |-> start + k - 1, modifier |-> modifier]]

\* "start-end" with a modifier (lines 383-389 and 407-413):
\* ok with the entries, skip (continue) or error (ValueError)
ParseRange(num_str, modifier, max_num) ==
    LET fields == SplitOn(num_str, "-")
    IN  IF Len(fields) # 2 \/ ~IsInt(fields[1]) \/ ~IsInt(fields[2])
        THEN [res |-> "error", items |-> <<>>]
        ELSE LET start == IntOf(fields[1])
                 end == IntOf(fields[2])
             IN  IF start < 1 \/ end > max_num \/ start > end
                 THEN [res |-> "skip", items |-> <<>>]
                 ELSE [res |-> "ok", items |-> RangeItems(start, end, modifier)]

\* the suffix stripped at lines 395-403: <<modifier, num_str>>
SplitModifier(part) ==
    IF EndsWith(part, <<"b", "e">>) THEN <<(<<"b", "e">>), SubSeq(part, 1, Len(part) - 2)>>
    ELSE IF EndsWith(part, <<"b">>) THEN <<(<<"b">>), SubSeq(part, 1, Len(part) - 1)>>
    ELSE IF EndsWith(part, <<"e">>) THEN <<(<<"e">>), SubSeq(part, 1, Len(part) - 1)>>
    ELSE <<(<<>>), part>>

\* one pass of the loop body (lines 381-419) over one token
ParsePart(part, max_num) ==
    IF HasChar(part, "-") /\ ~HasChar(part, "b") /\ ~HasChar(part, "e")
    THEN ParseRange(part, <<>>, max_num)
    ELSE LET sm == SplitModifier(part)
             modifier == sm[1]
             num_str == sm[2]
         IN  IF HasChar(num_str, "-") THEN ParseRange(num_str, modifier, max_num)
             ELSE IF ~IsInt(num_str) THEN [res |-> "error", items |-> <<>>]
             ELSE IF IntOf(num_str) < 1 \/ IntOf(num_str) > max_num
                  THEN [res |-> "skip", items |-> <<>>]
             ELSE [res |-> "ok",
                   items |-> <<[num |-> IntOf(num_str), modifier |-> modifier]>>]

RECURSIVE ParseParts(_, _, _)
\* the for loop inside the try: the list, or <<>> once a token raises
\* ValueError (except ValueError: return [])
ParseParts(parts, max_num, selected) ==
    IF parts = <<>> THEN selected
    ELSE LET r == ParsePart(parts[1], max_num)
         IN  IF r.res = "error" THEN <<>>
             ELSE ParseParts(Tail(parts), max_num, selected \o r.items)

parse_selection(input_str, max_num) ==
    ParseParts(SplitWords(Strip(input_str)), max_num, <<>>)

----------------------------------------------------------------------------
(* main: the state of one run *)

VARIABLES
    now,                \* datetime.now() of the run
    history_response,   \* the entries of the user's history, as the service
                        \* lists them (response.json() of get_watch_history)
    watched_shows,      \* what the service returned: per show its watched set,
                        \* its catalog (get_all_episodes) and, once the history
                        \* is folded, its history (watch_history_raw.get)
    shows_with_missing, \* the analysed shows that miss episodes
    selection_input,    \* the selection typed by the user, stripped and lowered
    selected,           \* [(show_num, modifier)]
    to_process,         \* the batch prepared for submission
    next_item,          \* position of the submission loop in to_process
    confirm,            \* the answer to "Proceed? (yes/no)", stripped and lowered
    success_count,
    posted,             \* the payloads sent to /sync/history, in order, each
                        \* with the status the service answered
    pc                  \* fetch, start, select, confirm, mark, done, or how the run
                        \* died: type_error, connection_error

vars == <<now, history_response, watched_shows, shows_with_missing,
          selection_input, selected, to_process, confirm, next_item,
          success_count, posted, pc>>

\* mutant: the first entry of a key is kept
NewerNever(per_show, key, watched_at) == key \notin DOMAIN per_show

\* line 87: the entry replaces what the key holds
Newer(per_show, key, watched_at) ==
    key \notin DOMAIN per_show \/ StrLess(per_show[key], watched_at)

RECURSIVE get_watch_history(_, _, _)
\* the loop of get_watch_history (lines 75-90) from entry i on
get_watch_history(entries, i, history) ==
    IF i > Len(entries) THEN history
    ELSE LET show_id == entries[i].show_id
             key == <<entries[i].season, entries[i].number>>
             watched_at == entries[i].watched_at
             per_show == IF show_id \in DOMAIN history THEN history[show_id] ELSE <<>>
         IN  get_watch_history(entries, i + 1,
                 WithField(history, show_id,
                     IF Newer(per_show, key, watched_at)
                     THEN WithField(per_show, key, watched_at)
                     ELSE per_show))

\* watch_history_raw.get(show_id, {}) (line 483)
HistoryOf(watch_history_raw, show_id) ==
    IF show_id \in DOMAIN watch_history_raw THEN watch_history_raw[show_id] ELSE <<>>

\* min / max of sorted(show_history.values()) (lines 494-497)
FirstString(d) ==
    IF DOMAIN d = {} THEN PyNone
    ELSE d[CHOOSE k \in DOMAIN d : \A o \in DOMAIN d : ~StrLess(d[o], d[k])]

LastString(d) ==
    IF DOMAIN d = {} THEN PyNone
    ELSE d[CHOOSE k \in DOMAIN d : \A o \in DOMAIN d : ~StrLess(d[k], d[o])]

HasMissing(missing) ==
    missing.beginning # <<>> \/ missing.gaps # <<>> \/ missing.ending # <<>>

\* the body of the analysis loop for one show (lines 471-508)
AnalyzeShow(show_data) ==
    LET missing == find_all_missing_episodes(show_data.watched_episodes,
                       show_data.all_episodes, show_data.show_history)
        avg == calculate_average_interval(show_data.show_history)
    IN  [missing |-> HasMissing(missing),
         raised |-> HasMissing(missing) /\ avg.raised,
         show |-> [show_id |-> show_data.show_id,
                   missing |-> missing,
                   watched_count |-> Cardinality(show_data.watched_episodes),
                   total_count |-> Len(show_data.all_episodes),
                   avg_interval |-> avg.td,
                   first_watched_date |-> FirstString(show_data.show_history),
                   last_watched_date |-> LastString(show_data.show_history)]]

RECURSIVE AnalyzeShows(_, _, _)
\* the analysis loop from show i on: the shows found, or crashed
AnalyzeShows(shows, i, found) ==
    IF i > Len(shows) THEN [crashed |-> FALSE, shows |-> found]
    ELSE LET a == AnalyzeShow(shows[i])
         IN  IF a.raised THEN [crashed |-> TRUE, shows |-> found]
             ELSE AnalyzeShows(shows, i + 1,
                               IF a.missing THEN Append(found, a.show) ELSE found)

\* mutant: the flag is read off the end of the modifier
IncludeBeginningSuffix(modifier) == EndsWith(modifier, <<"b">>)

\* lines 574-576
IncludeBeginning(modifier) == HasChar(modifier, "b")
IncludeGaps(modifier) == TRUE
IncludeEnding(modifier) == HasChar(modifier, "e")

\* the episodes of list, each replaced by its dated twin when it has one
\* (the lists are shallow copies: the dated dicts are the show's own)
Dated(list, dated) ==
    [i \in 1..Len(list) |->
        IF \E j \in 1..Len(dated) : EpKey(dated[j]) = EpKey(list[i])
        THEN dated[CHOOSE j \in 1..Len(dated) : EpKey(dated[j]) = EpKey(list[i])]
        ELSE list[i]]

\* the body of the preparation loop for one selected show (lines 570-596)
PrepareShow(show, modifier, t) ==
    LET none == [raised |-> FALSE, eps |-> <<>>]
        b == IF IncludeBeginning(modifier) /\ show.missing.beginning # <<>>
             THEN calculate_dates_for_beginning(show.missing.beginning,
                      show.first_watched_date, show.avg_interval, t)
             ELSE none
        g == IF IncludeGaps(modifier) /\ show.missing.gaps # <<>>
             THEN calculate_intelligent_dates_for_gaps(show.missing.gaps, t)
             ELSE <<>>
        e == IF IncludeEnding(modifier) /\ show.missing.ending # <<>>
             THEN calculate_dates_for_ending(show.missing.ending,
                      show.last_watched_date, show.avg_interval, t)
             ELSE none
    IN  IF b.raised \/ e.raised
        THEN [raised |-> TRUE, episodes_to_mark |-> <<>>, show |-> show]
        ELSE [raised |-> FALSE,
              episodes_to_mark |-> b.eps \o g \o e.eps,
              show |-> [show EXCEPT !.missing =
                           [beginning |-> Dated(show.missing.beginning, b.eps),
                            gaps |-> Dated(show.missing.gaps, g),
                            ending |-> Dated(show.missing.ending, e.eps)]]]

RECURSIVE PrepareAll(_, _, _, _, _)
\* the preparation loop (lines 568-604) from entry i of selected on
PrepareAll(sel, i, shows, batch, t) ==
    IF i > Len(sel) THEN [crashed |-> FALSE, shows |-> shows, to_process |-> batch]
    ELSE LET show_num == sel[i].num
             r == PrepareShow(shows[show_num], sel[i].modifier, t)
         IN  IF r.raised THEN [crashed |-> TRUE, shows |-> shows, to_process |-> batch]
             ELSE PrepareAll(sel, i + 1,
                      [shows EXCEPT ![show_num] = r.show],
                      IF r.episodes_to_mark # <<>>
                      THEN Append(batch, [show_id |-> shows[show_num].show_id,
                                          episodes |-> r.episodes_to_mark,
                                          modifier |-> sel[i].modifier,
                                          show_num |-> show_num])
                      ELSE batch,
                      t)

\* lines 556-561
SelectedOf(input, max_num) ==
    IF StartsWith(input, <<"a", "l", "l">>)
    THEN [i \in 1..max_num |-> [num |-> i, modifier |-> SubSeq(input, 4, Len(input))]]
    ELSE parse_selection(input, max_num)

\* the payload of mark_episodes_watched (lines 349-360)
Payload(episodes, t) ==
    [i \in 1..Len(episodes) |->
        [watched_at |-> IF "calculated_watched_at" \in DOMAIN episodes[i]
                           /\ Truthy(episodes[i].calculated_watched_at)
                        THEN episodes[i].calculated_watched_at
                        ELSE isoformat(t),
         ids |-> episodes[i].ids]]

----------------------------------------------------------------------------
(* main: the steps of one run *)

\* lines 459-515: every watched show is analysed
\* lines 441-446 and 483: the history is fetched and folded, each show gets
\* its part of it
Fetch ==
    /\ pc = "fetch"
    /\ LET watch_history_raw == get_watch_history(history_response, 1, <<>>)
       IN  watched_shows' =
               [i \in 1..Len(watched_shows) |->
                   [watched_shows[i] EXCEPT !.show_history =
                       HistoryOf(watch_history_raw, watched_shows[i].show_id)]]
    /\ pc' = "start"
    /\ UNCHANGED <<now, history_response, shows_with_missing, selection_input,
                   selected, to_process, confirm, next_item, success_count, posted>>

Analyze ==
    /\ pc = "start"
    /\ LET a == AnalyzeShows(watched_shows, 1, <<>>)
       IN  /\ shows_with_missing' = a.shows
           /\ pc' = IF a.crashed THEN "type_error"
                    ELSE IF a.shows = <<>> THEN "done" ELSE "select"
    /\ UNCHANGED <<now, history_response, watched_shows, selection_input,
                   selected, to_process, confirm, next_item, success_count, posted>>

\* lines 550-614: the selection is read, parsed and the batch prepared
Select(typed) ==
    /\ pc = "select"
    /\ LET input == Lower(Strip(typed))
           cancelled == input = <<>> \/ input = <<"c", "a", "n", "c", "e", "l">>
           sel == IF cancelled THEN <<>> ELSE SelectedOf(input, Len(shows_with_missing))
           p == PrepareAll(sel, 1, shows_with_missing, <<>>, now)
       IN  /\ selection_input' = input
           /\ selected' = sel
           /\ shows_with_missing' = p.shows
           /\ to_process' = p.to_process
           /\ pc' = IF sel = <<>> THEN "done"
                    ELSE IF p.crashed THEN "type_error" ELSE "confirm"
    /\ UNCHANGED <<now, history_response, watched_shows, confirm, next_item,
                   success_count, posted>>

\* mutant: only an outright "no" stops the run
ProceedUnlessNo(answer) == answer # <<"n", "o">>

\* line 617: confirm in ['yes', 'y']
Proceed(answer) == answer \in {<<"y", "e", "s">>, <<"y">>}

\* lines 616-627: the answer to "Proceed? (yes/no)"
Confirm(typed) ==
    /\ pc = "confirm"
    /\ confirm' = Lower(Strip(typed))
    /\ pc' = IF Proceed(confirm')
             THEN (IF to_process = <<>> THEN "done" ELSE "mark")
             ELSE "done"
    /\ next_item' = 1
    /\ success_count' = 0
    /\ UNCHANGED <<now, history_response, watched_shows, shows_with_missing,
                   selection_input, selected, to_process, posted>>

\* lines 628-631: one pass of the submission loop; the service answers with
\* an HTTP status
Mark(status_code) ==
    /\ pc = "mark"
    /\ LET item == to_process[next_item]
       IN  /\ posted' = Append(posted, [show_id |-> item.show_id,
                                        episodes |-> Payload(item.episodes, now),
                                        status_code |-> status_code])
           /\ success_count' = IF status_code = 201 THEN success_count + 1
                               ELSE success_count
    /\ next_item' = next_item + 1
    /\ pc' = IF next_item = Len(to_process) THEN "done" ELSE "mark"
    /\ UNCHANGED <<now, history_response, watched_shows, shows_with_missing,
                   selection_input, selected, to_process, confirm>>

\* requests.post raises (no connection): nothing catches it
MarkRaises ==
    /\ pc = "mark"
    /\ pc' = "connection_error"
    /\ UNCHANGED <<now, history_response, watched_shows, shows_with_missing,
                   selection_input, selected, to_process, confirm, next_item,
                   success_count, posted>>

----------------------------------------------------------------------------
(* What the service can return for one show.  st maps each episode key to   *)
(* [cat: in the catalog, w: watched, hist: watched_at, air: first_aired].   *)

Episode(show_id, k, air) ==
    [season |-> k[1], episode |-> k[2],
     ids |-> 100 * show_id + 10 * k[1] + k[2],
     first_aired |-> air]

ShowData(show_id, st) ==
    LET catalog == SortKeys({k \in DOMAIN st : st[k].cat})
    IN  [show_id |-> show_id,
         watched_episodes |-> {k \in DOMAIN st : st[k].w},
         all_episodes |-> [i \in 1..Len(catalog) |->
                              Episode(show_id, catalog[i], st[catalog[i]].air)],
         show_history |-> [k \in {k \in DOMAIN st : Truthy(st[k].hist)} |-> st[k].hist]]

Unwatched(airs) == [cat : {TRUE}, w : {FALSE}, hist : {PyNone}, air : airs]
Watched(hists) == [cat : {TRUE}, w : {TRUE}, hist : hists, air : {PyNone}]
\* get_all_episodes drops season 0 and the catalog may lack a watched episode
NotListed(hists) == [cat : {FALSE}, w : {TRUE, FALSE}, hist : hists, air : {PyNone}]

\* the keys (1,1), (1,2), (2,1), (2,2), ... of a catalog of NumEpisodes episodes
DateKeys == {<<((i - 1) \div 2) + 1, ((i - 1) % 2) + 1>> : i \in 1..NumEpisodes}

\* date-synthesis family: one show, every episode watched (with or without a
\* history timestamp) or missing (with or without an air date)
DateShows ==
    {ShowData(1, st) : st \in [DateKeys ->
        Watched({PyNone, Iso(100), Iso(103), Iso(200), Bad})
        \cup Unwatched({PyNone, Iso(10), Iso(90), Bad})]}

\* history family: one show whose history holds timestamps from the same
\* instant up to more than 365 days apart
HistoryShows ==
    {ShowData(1, st) : st \in [DateKeys ->
        Watched({PyNone, Iso(0), Iso(1), Iso(3), Iso(17520), Bad})
        \cup Unwatched({PyNone})]}

\* partition family: one show over the keys of seasons 0..MaxSeason, the
\* specials (season 0) never in the catalog
SeasonKeys(s) == {<<s, e>> : e \in 1..MaxEpisode}
PartitionStates ==
    {st \in [UNION {SeasonKeys(s) : s \in 0..MaxSeason} ->
                Watched({PyNone, Iso(100), Iso(103)}) \cup Unwatched({PyNone})
                \cup NotListed({PyNone})] :
        \A k \in DOMAIN st : k[1] = 0 => ~st[k].cat}
PartitionShows == {ShowData(1, st) : st \in PartitionStates}

\* batch family: NumShows shows of five episodes; by turns a show misses its
\* beginning, a gap and its ending, or a gap only, or its ending only
BatchKeys == {<<1, e>> : e \in 1..5}
BatchWatched(i) ==
    CASE i % 3 = 1 -> {<<1, 2>>, <<1, 4>>}
      [] i % 3 = 2 -> {<<1, 1>>, <<1, 3>>, <<1, 4>>, <<1, 5>>}
      [] OTHER -> {<<1, 1>>, <<1, 2>>, <<1, 3>>, <<1, 4>>}
BatchShow(show_id) ==
    ShowData(show_id, [k \in BatchKeys |->
        [cat |-> TRUE, w |-> k \in BatchWatched(show_id), hist |-> PyNone, air |-> PyNone]])
BatchShows == {[i \in 1..NumShows |-> BatchShow(i)]}

\* the shows as get_watched_shows and get_all_episodes return them: the
\* history comes from get_watch_history
NoHistory(shows) == [i \in 1..Len(shows) |-> [shows[i] EXCEPT !.show_history = <<>>]]

\* one history entry (lines 77-81)
Entry(show_id, key, watched_at) ==
    [show_id |-> show_id, season |-> key[1], number |-> key[2],
     watched_at |-> watched_at]

RECURSIVE EntriesOf(_, _)
\* a history that lists each watched_at of the shows once, show by show
EntriesOf(shows, i) ==
    IF i > Len(shows) THEN <<>>
    ELSE LET d == shows[i].show_history
             keys == SortKeys(DOMAIN d)
         IN  [j \in 1..Len(keys) |-> Entry(shows[i].show_id, keys[j], d[keys[j]])]
             \o EntriesOf(shows, i + 1)

\* the state when main starts to fetch: entries are the history listed by the
\* service, shows the watched shows with their catalogs
InitRun(entries, shows) ==
    /\ now = Now
    /\ history_response = entries
    /\ watched_shows = shows
    /\ shows_with_missing = <<>>
    /\ selection_input = <<>>
    /\ selected = <<>>
    /\ to_process = <<>>
    /\ confirm = <<>>
    /\ next_item = 1
    /\ success_count = 0
    /\ posted = <<>>
    /\ pc = "fetch"

InitWith(shows) == \E s \in shows : InitRun(EntriesOf(s, 1), NoHistory(s))

Init == InitWith({<<s>> : s \in DateShows})
InitHistory == InitWith({<<s>> : s \in HistoryShows})
InitPartition == InitWith({<<s>> : s \in PartitionShows})
InitBatch == InitWith(BatchShows)

\* merge family: the shows of the batch family and every history of at most
\* MaxEntries entries, in any order, an episode watched again and again, each
\* watched_at in the one format the service writes
MergeKeys == {<<1, 2>>, <<1, 4>>}
MergeEntries ==
    {Entry(show_id, key, watched_at) :
        show_id \in 1..NumShows, key \in MergeKeys,
        watched_at \in {Iso(100), Iso(103), Iso(200)}}
MergeHistories == UNION {[1..n -> MergeEntries] : n \in 0..MaxEntries}
InitMerge ==
    \E entries \in MergeHistories, s \in BatchShows : InitRun(entries, NoHistory(s))

----------------------------------------------------------------------------
(* What the user can type. *)

\* selections of a run with one show
ShowInputs ==
    {<<"1">>, <<"1", "b">>, <<"1", "e">>, <<"1", "B", "E">>,
     <<"a", "l", "l">>, <<"a", "l", "l", "e", "b">>, <<"a", "l", "l", "x">>, <<>>}

Alphabet == {"1", "2", "-", "b", "e", "x", " "}

\* every string of at most MaxInput characters of the alphabet, and the words
TypedInputs ==
    UNION {[1..n -> Alphabet] : n \in 0..MaxInput}
    \cup {<<"a", "l", "l">>, <<"a", "l", "l", "b", "e">>,
          <<"c", "a", "n", "c", "e", "l">>, <<"C", "a", "n", "c", "E", "l">>}

Answers == {<<"y">>, <<"y", "e", "s">>, <<"Y", "E", "s", " ">>, <<"n", "o">>, <<>>}

StatusCodes == {201, 500}

NextShow ==
    \/ Fetch
    \/ Analyze
    \/ \E typed \in ShowInputs : Select(typed)
    \/ \E typed \in Answers : Confirm(typed)
    \/ \E status_code \in StatusCodes : Mark(status_code)
    \/ MarkRaises

NextBatch ==
    \/ Fetch
    \/ Analyze
    \/ \E typed \in TypedInputs : Select(typed)
    \/ \E typed \in Answers : Confirm(typed)
    \/ \E status_code \in StatusCodes : Mark(status_code)
    \/ MarkRaises

Spec == Init /\ [][NextShow]_vars
SpecHistory == InitHistory /\ [][NextShow]_vars
SpecPartition == InitPartition /\ [][NextShow]_vars
SpecBatch == InitBatch /\ [][NextBatch]_vars
SpecMerge == InitMerge /\ [][NextShow]_vars

\* the submission loop runs on its own: once entered, each pass that can be
\* taken is taken (the prompts wait for the user, the loop waits for nobody)
SpecBatchFair ==
    /\ InitBatch
    /\ [][NextBatch]_vars
    /\ WF_vars((\E status_code \in StatusCodes : Mark(status_code)) \/ MarkRaises)

----------------------------------------------------------------------------
(* The claims.  A claim about the analysis of a show is read off               *)
(* shows_with_missing, whose entries hold what find_all_missing_episodes and   *)
(* the date synthesis produced, against the show's input in watched_shows.     *)

KeysOf(list) == {EpKey(list[i]) : i \in 1..Len(list)}
NoDuplicates(list) == Cardinality(KeysOf(list)) = Len(list)
InputOf(show) ==
    watched_shows[CHOOSE i \in 1..Len(watched_shows) :
                      watched_shows[i].show_id = show.show_id]
Analysed == {shows_with_missing[i] : i \in 1..Len(shows_with_missing)}
PairwiseDisjoint(A, B, C, D) ==
    /\ A \cap B = {} /\ A \cap C = {} /\ A \cap D = {}
    /\ B \cap C = {} /\ B \cap D = {} /\ C \cap D = {}

\* C1 as stated: for every watched set, beginning, gaps, ending and watched
\* are pairwise disjoint and their union is the catalog's key set.
C1_UnionIsCatalog ==
    \A show \in Analysed :
        LET B == KeysOf(show.missing.beginning)
            G == KeysOf(show.missing.gaps)
            E == KeysOf(show.missing.ending)
            W == InputOf(show).watched_episodes
        IN  /\ B \cup G \cup E \cup W = KeysOf(InputOf(show).all_episodes)
            /\ PairwiseDisjoint(B, G, E, W)

\* C1 (amended): beginning, gaps and ending hold every catalog episode that is
\* not watched exactly once and nothing else, so that with the watched set
\* they make up catalog \cup watched, which is the catalog when every watched
\* key is a catalog key; with nothing watched every episode is in beginning.
C1_Partition ==
    \A show \in Analysed :
        LET B == KeysOf(show.missing.beginning)
            G == KeysOf(show.missing.gaps)
            E == KeysOf(show.missing.ending)
            W == InputOf(show).watched_episodes
            catalog == KeysOf(InputOf(show).all_episodes)
        IN  /\ B \cup G \cup E = catalog \ W
            /\ PairwiseDisjoint(B, G, E, W)
            /\ NoDuplicates(show.missing.beginning)
            /\ NoDuplicates(show.missing.gaps)
            /\ NoDuplicates(show.missing.ending)
            /\ B \cup G \cup E \cup W = catalog \cup W
            /\ (W \subseteq catalog => B \cup G \cup E \cup W = catalog)
            /\ (W = {} => B = catalog /\ G = {} /\ E = {})

\* a show with gaps and an unwatched episode outside them, one of whose
\* watched keys the catalog does not list
C1_Witness ==
    \E show \in Analysed :
        /\ show.missing.gaps # <<>>
        /\ show.missing.beginning # <<>> \/ show.missing.ending # <<>>
        /\ ~(InputOf(show).watched_episodes \subseteq KeysOf(InputOf(show).all_episodes))

\* C4: the neighbours recorded in a gap entry are watched keys, the greatest
\* below and the least above the gap's key, and the timestamps recorded are
\* the history's for those keys, None where the history has none.
C4_GapNeighbours ==
    \A show \in Analysed :
        \A i \in 1..Len(show.missing.gaps) :
            LET g == show.missing.gaps[i]
                W == InputOf(show).watched_episodes
                H == InputOf(show).show_history
            IN  /\ g.prev_watched \in W
                /\ g.next_watched \in W
                /\ KeyLess(g.prev_watched, EpKey(g))
                /\ KeyLess(EpKey(g), g.next_watched)
                /\ \A w \in W : ~(KeyLess(g.prev_watched, w) /\ KeyLess(w, EpKey(g)))
                /\ \A w \in W : ~(KeyLess(EpKey(g), w) /\ KeyLess(w, g.next_watched))
                /\ g.prev_watched_at =
                       (IF g.prev_watched \in DOMAIN H THEN H[g.prev_watched] ELSE PyNone)
                /\ g.next_watched_at =
                       (IF g.next_watched \in DOMAIN H THEN H[g.next_watched] ELSE PyNone)

\* a gap below two watched keys, with a timestamp for the preceding neighbour
\* and none for the following one
C4_Witness ==
    \E show \in Analysed :
        \E i \in 1..Len(show.missing.gaps) :
            LET g == show.missing.gaps[i]
            IN  /\ g.prev_watched_at = Iso(100)
                /\ g.next_watched_at = PyNone
                /\ \E w \in InputOf(show).watched_episodes : KeyLess(g.next_watched, w)

----------------------------------------------------------------------------
(* Claims about the synthesized dates.  Once the batch is prepared the       *)
(* entries of a show's missing lists carry calculated_watched_at for the     *)
(* regions that were included.                                               *)

IsDated(ep) == "calculated_watched_at" \in DOMAIN ep
DateOf(ep) == ep.calculated_watched_at.t
AirKnown(ep) == ep.first_aired.kind = "iso"
AirFloor(ep) == ep.first_aired.t + Hours12
DatedOf(list) == {list[i] : i \in {j \in 1..Len(list) : IsDated(list[j])}}
Later(a, b) == IF a < b THEN b ELSE a
Abs(x) == IF x < 0 THEN 0 - x ELSE x

\* the run of a gap: the gaps between the same two watched neighbours; the
\* gap's 1-based place in it by episode order, and its length
RunOf(show, g) ==
    {x \in DatedOf(show.missing.gaps) :
        x.prev_watched = g.prev_watched /\ x.next_watched = g.next_watched}
RankIn(S, ep) == Cardinality({x \in S : x = ep \/ KeyLess(EpKey(x), EpKey(ep))})
BothKnown(g) == g.prev_watched_at.kind = "iso" /\ g.next_watched_at.kind = "iso"
Slice(show, g) ==
    TdDiv(g.next_watched_at.t - g.prev_watched_at.t, Cardinality(RunOf(show, g)) + 1)

\* the value proposed for a gap before the air floor is applied, where the
\* run has a neighbour timestamp
GapProposed(show, g) ==
    LET count == Cardinality(RunOf(show, g))
        i == RankIn(RunOf(show, g), g)
    IN  IF BothKnown(g) THEN g.prev_watched_at.t + i * Slice(show, g)
        ELSE IF g.prev_watched_at.kind = "iso" THEN g.prev_watched_at.t + i * Days2
        ELSE g.next_watched_at.t - (count - i + 1) * Days2
GapHasProposal(g) == g.prev_watched_at.kind = "iso" \/ g.next_watched_at.kind = "iso"

\* the value proposed for a beginning / ending episode when the boundary
\* timestamp is known
BeginningProposed(show, ep) ==
    LET S == DatedOf(show.missing.beginning)
    IN  show.first_watched_date.t - show.avg_interval * (Cardinality(S) - RankIn(S, ep) + 1)
EndingProposed(show, ep) ==
    show.last_watched_date.t + show.avg_interval * RankIn(DatedOf(show.missing.ending), ep)

\* clamp-to-air for one episode with a proposal: never before the floor, and
\* the floor itself when the proposal is before it
Clamped(ep, proposed) ==
    /\ DateOf(ep) >= AirFloor(ep)
    /\ proposed < AirFloor(ep) => DateOf(ep) = AirFloor(ep)

\* C2 as stated: every episode with a known air date that is given a date gets
\* one that is not before first_aired + 12 hours, and the floor exactly when
\* the value proposed for it is earlier.
C2_NeverBeforeAirFloor ==
    \A show \in Analysed :
        /\ \A g \in DatedOf(show.missing.gaps) :
               AirKnown(g) =>
                   /\ DateOf(g) >= AirFloor(g)
                   /\ GapHasProposal(g) => Clamped(g, GapProposed(show, g))
        /\ \A ep \in DatedOf(show.missing.beginning) :
               AirKnown(ep) =>
                   /\ DateOf(ep) >= AirFloor(ep)
                   /\ show.first_watched_date.kind = "iso"
                          => Clamped(ep, BeginningProposed(show, ep))
        /\ \A ep \in DatedOf(show.missing.ending) :
               AirKnown(ep) =>
                   /\ DateOf(ep) >= AirFloor(ep)
                   /\ show.last_watched_date.kind = "iso"
                          => Clamped(ep, EndingProposed(show, ep))

\* the gap is one the tie-break of line 239 applies to: both neighbour
\* timestamps are known and the proposal raised to the air floor is later than
\* next_ts
PastNext(show, g) ==
    BothKnown(g) /\ Later(GapProposed(show, g), AirFloor(g)) > g.next_watched_at.t

\* C2 (amended): as C2, except for a gap whose run has both neighbour
\* timestamps and whose date, raised to the air floor, would be later than
\* next_ts: that gap receives next_ts - 30 * (count - i) minutes, whether or
\* not this is before its air floor.
C2_ClampUnlessPastNext ==
    \A show \in Analysed :
        /\ \A g \in DatedOf(show.missing.gaps) :
               AirKnown(g) =>
                   IF PastNext(show, g)
                   THEN DateOf(g) = g.next_watched_at.t
                            - Minutes30 * (Cardinality(RunOf(show, g)) - RankIn(RunOf(show, g), g))
                   ELSE /\ DateOf(g) >= AirFloor(g)
                        /\ GapHasProposal(g) => Clamped(g, GapProposed(show, g))
        /\ \A ep \in DatedOf(show.missing.beginning) :
               AirKnown(ep) =>
                   /\ DateOf(ep) >= AirFloor(ep)
                   /\ show.first_watched_date.kind = "iso"
                          => Clamped(ep, BeginningProposed(show, ep))
        /\ \A ep \in DatedOf(show.missing.ending) :
               AirKnown(ep) =>
                   /\ DateOf(ep) >= AirFloor(ep)
                   /\ show.last_watched_date.kind = "iso"
                          => Clamped(ep, EndingProposed(show, ep))

\* a beginning episode raised to its air floor, and in the same batch a gap
\* that the tie-break put before its air floor
C2_Witness ==
    \E show \in Analysed :
        /\ \E ep \in DatedOf(show.missing.beginning) :
               /\ AirKnown(ep) /\ show.first_watched_date.kind = "iso"
               /\ BeginningProposed(show, ep) < AirFloor(ep)
               /\ DateOf(ep) = AirFloor(ep)
        /\ \E g \in DatedOf(show.missing.gaps) :
               AirKnown(g) /\ PastNext(show, g) /\ DateOf(g) < AirFloor(g)

\* C3 as stated: within each region the synthesized dates do not decrease with
\* the episode key.
C3_Monotonic ==
    \A show \in Analysed :
        \A region \in {DatedOf(show.missing.beginning), DatedOf(show.missing.gaps),
                       DatedOf(show.missing.ending)} :
            \A a, b \in region : KeyLess(EpKey(a), EpKey(b)) => DateOf(a) <= DateOf(b)

\* the gaps C5 speaks of: dated, in a run with both neighbour timestamps
\* known, and with no air date to constrain them
FreeGaps(show) ==
    {g \in DatedOf(show.missing.gaps) : BothKnown(g) /\ ~AirKnown(g)}

\* C5 as stated: the i-th gap of a run of count gaps receives exactly
\* prev_ts + i * (next_ts - prev_ts) / (count + 1).
C5_ExactSlices ==
    \A show \in Analysed :
        \A g \in FreeGaps(show) :
            (Cardinality(RunOf(show, g)) + 1) * (DateOf(g) - g.prev_watched_at.t)
                = RankIn(RunOf(show, g), g) * (g.next_watched_at.t - g.prev_watched_at.t)

\* s is delta / m rounded to the nearest whole tick, ties to the even one
IsRounded(s, delta, m) ==
    /\ 2 * Abs(m * s - delta) <= m
    /\ 2 * Abs(m * s - delta) = m => s % 2 = 0

\* C5 (amended): the i-th gap receives prev_ts + i * slice, where slice is
\* (next_ts - prev_ts) / (count + 1) rounded to the nearest representable
\* duration (ties to even); this is the exact value whenever count + 1 divides
\* next_ts - prev_ts, as in the single gap between two timestamps four days
\* apart.
C5_RoundedSlices ==
    \A show \in Analysed :
        \A g \in FreeGaps(show) :
            LET m == Cardinality(RunOf(show, g)) + 1
                i == RankIn(RunOf(show, g), g)
                delta == g.next_watched_at.t - g.prev_watched_at.t
            IN  /\ \E s \in (0 - Abs(delta))..Abs(delta) :
                       /\ IsRounded(s, delta, m)
                       /\ DateOf(g) = g.prev_watched_at.t + i * s
                /\ delta % m = 0 => m * (DateOf(g) - g.prev_watched_at.t) = i * delta

\* the second gap of a run of two between timestamps in order, dated two
\* thirds of the way from prev_ts to next_ts
C5_Witness ==
    \E show \in Analysed :
        \E g \in FreeGaps(show) :
            /\ Cardinality(RunOf(show, g)) = 2
            /\ RankIn(RunOf(show, g), g) = 2
            /\ g.next_watched_at.t > g.prev_watched_at.t
            /\ 3 * (DateOf(g) - g.prev_watched_at.t)
                   = 2 * (g.next_watched_at.t - g.prev_watched_at.t)

\* the air dates known among a set of episodes
AirDates(S) == {ep.first_aired.t : ep \in {x \in S : AirKnown(x)}}
Greatest(T) == CHOOSE t \in T : \A o \in T : o <= t

\* C6 as stated: the anchor is the first-watched timestamp if known, else the
\* latest air date among the beginning episodes + 30 days if there is one,
\* else the current time; the episode at reverse position i receives
\* anchor - avgInterval * i unless raised to its air floor.
C6_BeginningFromAnchor ==
    \A show \in Analysed :
        LET S == DatedOf(show.missing.beginning)
            anchor == IF show.first_watched_date.kind = "iso"
                      THEN show.first_watched_date.t
                      ELSE IF AirDates(S) # {} THEN Greatest(AirDates(S)) + Days30
                      ELSE now
        IN  \A ep \in S :
                LET i == Cardinality(S) - RankIn(S, ep) + 1
                    proposed == anchor - show.avg_interval * i
                IN  DateOf(ep) = IF AirKnown(ep) THEN Later(proposed, AirFloor(ep))
                                 ELSE proposed

----------------------------------------------------------------------------
(* Claims about calculate_average_interval, read off avg_interval of an      *)
(* analysed show against the show's history.                                 *)

\* the distinct timestamps of a history
Timestamps(H) == {H[k].t : k \in {x \in DOMAIN H : H[x].kind = "iso"}}

\* the differences of consecutive sorted timestamps that are strictly between
\* 0 and 365 days, as pairs <<earlier, later>>
KeptPairs(T) ==
    {p \in T \X T :
        /\ p[1] < p[2]
        /\ ~\E c \in T : p[1] < c /\ c < p[2]
        /\ p[2] - p[1] < Days365}

RECURSIVE SumOfPairs(_)
SumOfPairs(P) ==
    IF P = {} THEN 0
    ELSE LET p == CHOOSE x \in P : TRUE
         IN  (p[2] - p[1]) + SumOfPairs(P \ {p})

\* C7 as stated: 2 days when no consecutive difference is strictly between 0
\* and 365 days (so also with fewer than two distinct timestamps), otherwise
\* the arithmetic mean of exactly those differences, which is > 0 and < 365
\* days.
C7_ExactMean ==
    \A show \in Analysed :
        LET kept == KeptPairs(Timestamps(InputOf(show).show_history))
        IN  IF kept = {} THEN show.avg_interval = Days2
            ELSE /\ Cardinality(kept) * show.avg_interval = SumOfPairs(kept)
                 /\ 0 < show.avg_interval /\ show.avg_interval < Days365

\* C7 (amended): as C7, with the mean rounded to the nearest representable
\* duration (ties to even); it is the exact mean whenever the number of kept
\* differences divides their sum.
C7_RoundedMean ==
    \A show \in Analysed :
        LET kept == KeptPairs(Timestamps(InputOf(show).show_history))
        IN  IF kept = {} THEN show.avg_interval = Days2
            ELSE /\ IsRounded(show.avg_interval, SumOfPairs(kept), Cardinality(kept))
                 /\ SumOfPairs(kept) % Cardinality(kept) = 0
                        => Cardinality(kept) * show.avg_interval = SumOfPairs(kept)
                 /\ 0 < show.avg_interval /\ show.avg_interval < Days365

\* a history of three timestamps whose two differences are kept and average
\* to a whole number of ticks other than the default
C7_Witness ==
    \E show \in Analysed :
        LET kept == KeptPairs(Timestamps(InputOf(show).show_history))
        IN  /\ Cardinality(kept) = 2
            /\ 2 * show.avg_interval = SumOfPairs(kept)
            /\ show.avg_interval # Days2

----------------------------------------------------------------------------
(* Claims about the selection and the batch.                                 *)

ElemsOf(list) == {list[i] : i \in 1..Len(list)}
Prepared == pc \in {"confirm", "mark", "done", "connection_error"}

\* the keys a selection (show, modifier) is to submit: every gap, the
\* beginning with the flag b, the ending with the flag e
RegionKeys(show, modifier) ==
    KeysOf(show.missing.gaps)
    \cup (IF HasChar(modifier, "b") THEN KeysOf(show.missing.beginning) ELSE {})
    \cup (IF HasChar(modifier, "e") THEN KeysOf(show.missing.ending) ELSE {})

\* the selections that have something to submit, in order
NonEmptySelections ==
    SelectSeq(selected,
              LAMBDA s : RegionKeys(shows_with_missing[s.num], s.modifier) # {})

\* C8: the batch holds, in the order selected, one list per selection that has
\* anything to submit; the list of a selection (show, modifier) holds every gap
\* episode of the show, its beginning episodes iff the modifier has b, its
\* ending episodes iff the modifier has e, and only episodes of the show's
\* own missing lists.
C8_RegionSelection ==
    Prepared =>
        /\ Len(to_process) = Len(NonEmptySelections)
        /\ \A k \in 1..Len(to_process) :
               LET item == to_process[k]
                   show == shows_with_missing[item.show_num]
                   L == KeysOf(item.episodes)
                   B == KeysOf(show.missing.beginning)
                   E == KeysOf(show.missing.ending)
               IN  /\ item.show_num = NonEmptySelections[k].num
                   /\ item.modifier = NonEmptySelections[k].modifier
                   /\ KeysOf(show.missing.gaps) \subseteq L
                   /\ B # {} => (B \subseteq L <=> HasChar(item.modifier, "b"))
                   /\ B # {} => (B \cap L # {} <=> HasChar(item.modifier, "b"))
                   /\ E # {} => (E \subseteq L <=> HasChar(item.modifier, "e"))
                   /\ E # {} => (E \cap L # {} <=> HasChar(item.modifier, "e"))
                   /\ NoDuplicates(item.episodes)
                   /\ ElemsOf(item.episodes) \subseteq
                          ElemsOf(show.missing.beginning) \cup ElemsOf(show.missing.gaps)
                          \cup ElemsOf(show.missing.ending)

\* a batch with the beginning and the gap but not the ending of a show that
\* misses all three, and with the gap of a show selected without a flag
C8_Witness ==
    /\ pc = "confirm"
    /\ \E k \in 1..Len(to_process) :
           LET show == shows_with_missing[to_process[k].show_num]
           IN  /\ to_process[k].modifier = <<"b">>
               /\ show.missing.beginning # <<>> /\ show.missing.ending # <<>>
               /\ show.missing.gaps # <<>>
               /\ KeysOf(to_process[k].episodes)
                      = KeysOf(show.missing.beginning) \cup KeysOf(show.missing.gaps)
    /\ \E k \in 1..Len(to_process) :
           /\ to_process[k].modifier = <<>>
           /\ KeysOf(to_process[k].episodes)
                  = KeysOf(shows_with_missing[to_process[k].show_num].missing.gaps)

Numeral(n) == CASE n = 1 -> "1" [] n = 2 -> "2" [] OTHER -> "3"
Modifiers == {<<>>, <<"b">>, <<"e">>, <<"b", "e">>}

\* the well-formed in-range tokens for max_num shows (max_num at most 3), each
\* with the entries it stands for
WellFormedTokens(max_num) ==
    {[token |-> <<Numeral(n)>> \o m, entries |-> {[num |-> n, modifier |-> m]}] :
        n \in 1..max_num, m \in Modifiers}
    \cup {[token |-> <<Numeral(p[1]), "-", Numeral(p[2])>> \o m,
           entries |-> {[num |-> n, modifier |-> m] : n \in p[1]..p[2]}] :
             p \in {q \in (1..max_num) \X (1..max_num) : q[1] <= q[2]}, m \in Modifiers}

\* C9 as stated: whatever the other tokens of the selection string are, every
\* well-formed in-range token contributes its entries to the parsed selection.
C9_PerTokenTolerant ==
    (pc \notin {"fetch", "start", "select"} /\ ~StartsWith(selection_input, <<"a", "l", "l">>)) =>
        \A wf \in WellFormedTokens(Len(shows_with_missing)) :
            wf.token \in ElemsOf(SplitWords(selection_input))
                => wf.entries \subseteq ElemsOf(selected)

\* C10 as stated (the part a run can show): no unparseable timestamp makes
\* the interval estimate or the date synthesis raise.
C10_NeverTypeError == pc # "type_error"


----------------------------------------------------------------------------
(* C11: submission failures are isolated per show *)

\* the submissions the service accepted (status 201)
Accepted == {i \in 1..Len(posted) : posted[i].status_code = 201}

\* the final summary (line 635) after a submission for every show of the
\* batch, in order, the count being that of the accepted ones
FinalSummary ==
    /\ pc = "done"
    /\ Len(posted) = Len(to_process)
    /\ \A i \in 1..Len(posted) : posted[i].show_id = to_process[i].show_id
    /\ success_count = Cardinality(Accepted)

\* C11 as stated: once the user has confirmed a batch, whatever happens to the
\* submissions of earlier shows, every show of the batch is submitted in
\* order, the run reaches its final summary and the count reported is the
\* number of accepted submissions.
C11_FailuresIsolated == [](pc = "mark" => <>FinalSummary)


----------------------------------------------------------------------------
(* C12: the history keeps the latest watched_at of each episode *)

\* the entries of the history for an episode of a show
EntriesFor(show_id, key) ==
    {i \in 1..Len(history_response) :
        /\ history_response[i].show_id = show_id
        /\ <<history_response[i].season, history_response[i].number>> = key}

\* every key an entry names
EntryKeys ==
    {<<history_response[i].season, history_response[i].number>> :
        i \in 1..Len(history_response)}

Folded == pc # "fetch"

\* C12: once the history is folded, whatever the order of the entries and
\* however often an episode was watched, a show's history holds a key exactly
\* when some entry names it, and holds for it the greatest watched_at of its
\* entries.
C12_LatestWins ==
    Folded =>
        \A s \in 1..Len(watched_shows) :
            LET show_id == watched_shows[s].show_id
                show_history == watched_shows[s].show_history
            IN  /\ DOMAIN show_history
                       = {key \in EntryKeys : EntriesFor(show_id, key) # {}}
                /\ \A key \in DOMAIN show_history :
                       /\ \E i \in EntriesFor(show_id, key) :
                              history_response[i].watched_at = show_history[key]
                       /\ \A i \in EntriesFor(show_id, key) :
                              ~StrLess(show_history[key], history_response[i].watched_at)

\* an episode watched three times, the latest watch listed neither first nor
\* last, and the history folded
C12_Witness ==
    /\ Folded
    /\ \E s \in 1..Len(watched_shows), key \in EntryKeys :
           LET E == EntriesFor(watched_shows[s].show_id, key)
           IN  /\ Cardinality(E) = 3
               /\ \E i, j, k \in E :
                      /\ i < j /\ j < k
                      /\ StrLess(history_response[i].watched_at,
                                 history_response[j].watched_at)
                      /\ StrLess(history_response[k].watched_at,
                                 history_response[j].watched_at)
               /\ key \in DOMAIN watched_shows[s].show_history


----------------------------------------------------------------------------
(* C13: the tie-break of gap interpolation *)

\* the air-date clamp pushes the gap's date past next_ts: both neighbour
\* timestamps are known and in order, the proposal is before the air floor
\* and the floor is later than next_ts
ClampPushesPastNext(show, g) ==
    /\ BothKnown(g) /\ AirKnown(g)
    /\ g.prev_watched_at.t <= g.next_watched_at.t
    /\ GapProposed(show, g) < AirFloor(g)
    /\ AirFloor(g) > g.next_watched_at.t

\* C13: in a run of count gaps with both neighbour timestamps known and
\* prev_ts <= next_ts, the i-th gap whose date the air-date clamp pushes past
\* next_ts is dated next_ts - 30 * (count - i) minutes.
C13_TieBreakValue ==
    \A show \in Analysed :
        \A g \in DatedOf(show.missing.gaps) :
            ClampPushesPastNext(show, g) =>
                DateOf(g) = g.next_watched_at.t
                    - Minutes30 * (Cardinality(RunOf(show, g)) - RankIn(RunOf(show, g), g))

\* a gap the tie-break dated before prev_ts: it is not the last of its run and
\* the neighbours were watched less than 30 * (count - i) minutes apart
C13_Witness ==
    \E show \in Analysed :
        \E g \in DatedOf(show.missing.gaps) :
            /\ ClampPushesPastNext(show, g)
            /\ RankIn(RunOf(show, g), g) < Cardinality(RunOf(show, g))
            /\ DateOf(g) < g.prev_watched_at.t


----------------------------------------------------------------------------
(* C14: nothing is written back without the user's confirmation *)

Submissions == Len(posted)

\* the selection typed was neither empty nor "cancel" and named a valid show
SelectionMade ==
    /\ selection_input # <<>>
    /\ selection_input # <<"c", "a", "n", "c", "e", "l">>
    /\ selected # <<>>

\* the answer to the confirmation prompt was "yes" or "y"
AnsweredYes == confirm = <<"y", "e", "s">> \/ confirm = <<"y">>

\* C14: in every run a submission to the history service happens only after
\* a selection that is not empty, not "cancel" and names a valid show, and
\* after the answer "yes" or "y" to the confirmation prompt; a run without
\* such a selection or such an answer ends with zero submissions.
C14_NoWriteWithoutConfirmation ==
    /\ Submissions > 0 => SelectionMade /\ AnsweredYes
    /\ (pc = "done" /\ ~(SelectionMade /\ AnsweredYes)) => Submissions = 0

\* a run that submitted after the answer "yes"
C14_Witness ==
    /\ pc = "done"
    /\ Submissions > 0
    /\ SelectionMade
    /\ confirm = <<"y", "e", "s">>


----------------------------------------------------------------------------
(* C15: each show is submitted at most once *)

\* C15 as stated: whatever the selection string, repeated show numbers and
\* overlapping ranges included, the batch holds at most one entry per show,
\* so that no missing episode is sent to the history service twice in a run.
C15_AtMostOnce ==
    \A i, j \in 1..Len(to_process) :
        to_process[i].show_num = to_process[j].show_num => i = j

============================================================================
